---- MODULE Spec2Model ----
(***************************************************************************)
(* kmc-invoice: the drawn-invoice PDF engine (app/pdf/pdf_draw.py,         *)
(* app/pdf/table_layout.py) and the money helpers it uses                  *)
(* (app/core/currency.py), the text shaper wrap_text, and the invoice       *)
(* number sequence (app/core/numbering.py).                                *)
(*                                                                         *)
(* Lengths are integers in layout units of 1/127 pt, so that both          *)
(* millimetres (reportlab: mm = 72/25.4 pt = 360/127 pt) and points are    *)
(* whole numbers and the layout arithmetic is exact.                       *)
(*                                                                         *)
(* Decimal values (quantities, rates, amounts) are integers in units of    *)
(* 10^-4; the strings produced by the ".2f" formats are modelled by the    *)
(* number of hundredths they display.                                      *)
(***************************************************************************)
EXTENDS Integers, Sequences, FiniteSets, TLC

VARIABLES
    items,        \* data["items"]: the list of item dicts
    customer,     \* data["customer"]: which optional lines are present
    settings,     \* the footer keys present in data["settings"]/data["business"]
    pc,           \* position inside build_invoice_pdf
    start_index,  \* build_invoice_pdf: start_index
    y,            \* build_invoice_pdf: y (the cursor)
    pages,        \* the pages already emitted by c.showPage()
    cur,          \* the content drawn on the canvas' current page
    data_total,   \* data["total"], in hundredths
    log,          \* the discrepancy signals build_invoice_pdf has emitted
    out_file,     \* what is stored at out_path
    db,           \* the database session: invoice_sequences and invoice numbers
    op,           \* the last numbering call, its arguments and its result
    issued,       \* per prefix, the highest suffix next_invoice_number returned
    m_in,         \* currency.py: the values handed to the money helper
    m_out,        \* currency.py: what the helper returned
    w_in,         \* wrap_text: the text and max_width it was called with
    w_out,        \* wrap_text: the lines it returned
    repo,         \* the customer, invoice and item tables (app/data/repo.py)
    rop,          \* the last repo call, its arguments and its outcome
    ov,           \* pdf_overlay / pdf_merge: the data given and the document made
    ui,           \* the invoice form: the number shown and what the save did
    race          \* two sessions running numbering statements step by step

pdfVars == <<items, customer, settings, pc, start_index, y, pages, cur,
             data_total, log, out_file>>
seqVars == <<db, op, issued>>
moneyVars == <<m_in, m_out>>
wrapVars == <<w_in, w_out>>

repoVars == <<repo, rop>>
overlayVars == <<ov>>
flowVars == <<ui>>
raceVars == <<race>>

vars == <<pdfVars, seqVars, moneyVars, wrapVars, repoVars, overlayVars, flowVars,
          raceVars>>

-----------------------------------------------------------------------------
(* Bounds of the model *)

MaxItems == 40
MaxPages == 3
MaxAddrLines == 1
MaxDataItems == 3
MaxSeq == 2
MaxStored == 1
MaxMoney == 27000
MaxSumLen == 10
MaxTextLen == 5
MaxWidth == 20
MaxId == 3

-----------------------------------------------------------------------------
(* Units and layout constants *)

mm == 360
pt == 127

PAGE_HEIGHT == 297 * mm
PAGE_WIDTH == 210 * mm
MARGIN_LEFT == 20 * mm
MARGIN_RIGHT == 20 * mm
MARGIN_TOP == 20 * mm
MARGIN_BOTTOM == 20 * mm
LOGO_HEIGHT == 22 * mm
RIGHT_LOGO_HEIGHT == 22 * mm
HEADER_ROW_HEIGHT == 8 * mm
TABLE_TOP_GAP == 6 * mm
TABLE_Y_SHIFT == 4 * mm
FOOTER_SHIFT == 8 * mm
LINE_STEP == (42 * mm) \div 10   \* the 4.2 * mm line advance of the text blocks

COL_W_SL == 12 * mm
COL_W_QTY == 18 * mm
COL_W_RATE == 24 * mm
COL_W_AMOUNT == 26 * mm
BODY_ROW_H == 6 * mm

Max(a, b) == IF a >= b THEN a ELSE b
Min(a, b) == IF a <= b THEN a ELSE b

-----------------------------------------------------------------------------
(* Money: app/core/currency.py *)

DecUnit == 10000   \* one unit of money in Decimal steps of 10^-4
CentStep == 100    \* one hundredth in Decimal steps

Quantize_half_up(d) == (d + CentStep \div 2) \div CentStep

\* Decimal.quantize(Decimal("0.01"), ROUND_HALF_EVEN): the number of hundredths
Quantize(d) ==
    LET lo == d \div CentStep
        r  == d % CentStep
    IN  IF 2 * r > CentStep THEN lo + 1
        ELSE IF 2 * r < CentStep THEN lo
        ELSE IF lo % 2 = 0 THEN lo ELSE lo + 1

round_money_dec(x) == Quantize(x) * CentStep

\* float(q) of a Decimal with two decimals: the double nearest to it, which
\* stands for the same number of hundredths
round_money(x) == Quantize(x) * CentStep

RECURSIVE SumSeq(_)
SumSeq(s) == IF s = <<>> THEN 0 ELSE s[1] + SumSeq(Tail(s))

RECURSIVE sum_money_stepwise(_)
sum_money_stepwise(values) ==
    IF values = <<>> THEN 0
    ELSE Quantize(sum_money_stepwise(SubSeq(values, 1, Len(values) - 1))
                  + values[Len(values)]) * CentStep

\* total = Decimal("0"); total += to_decimal(v) for each v; round_money_dec(total)
sum_money(values) == round_money_dec(SumSeq(values))

\* Decimal * Decimal of two values with at most two decimals: exact
DecMul(a, b) == (a \div CentStep) * (b \div CentStep)

\* f"{x:.2f}": the hundredths displayed.  The values formatted here have at
\* most two decimals or are exactly representable in binary, so the format
\* rounds the decimal value itself, ties to even.
Fmt2(x) == Quantize(x)

-----------------------------------------------------------------------------
(* The inputs *)

\* The kinds of item dicts a caller passes: scenario A's three items; the
\* third comes without an "amount" key.
ItemPool == <<
    [qty |->  2 * DecUnit, rate |-> 150 * DecUnit, amount |-> 300 * DecUnit, hasAmount |-> TRUE,
     nonnum |-> {}],
    [qty |->  1 * DecUnit, rate |-> 499900,        amount |-> 499900,        hasAmount |-> TRUE,
     nonnum |-> {}],
    [qty |->  3 * DecUnit, rate |->  20 * DecUnit, amount |-> 0,             hasAmount |-> FALSE,
     nonnum |-> {}],
    \* items with a value that is not numeric (a string such as "abc"); nonnum
    \* names the keys that hold one, and the number kept for that key is unused
    [qty |->  0,           rate |->  20 * DecUnit, amount |-> 400000,        hasAmount |-> TRUE,
     nonnum |-> {"qty"}],
    [qty |->  2 * DecUnit, rate |->  0,            amount |-> 0,             hasAmount |-> FALSE,
     nonnum |-> {"rate"}],
    [qty |->  2 * DecUnit, rate |->  20 * DecUnit, amount |-> 0,             hasAmount |-> TRUE,
     nonnum |-> {"amount"}] >>

\* The kinds with numeric values only, and all kinds
PoolIdx == 1..3
DataPoolIdx == 1..Len(ItemPool)

\* n items whose kinds alternate a, b, a, b, ...; the description of the
\* i-th item is the text numbered i, so that all descriptions differ.
MakeItems(n, a, b) ==
    [i \in 1..n |->
        LET k == ItemPool[IF i % 2 = 1 THEN a ELSE b]
        IN  [description |-> i, qty |-> k.qty, rate |-> k.rate,
             amount |-> k.amount, hasAmount |-> k.hasAmount, nonnum |-> k.nonnum]]

FooterKeys == {"permit", "pan", "cheque_to", "phone"}

-----------------------------------------------------------------------------
(* app/pdf/table_layout.py *)

_col_widths(content_width) ==
    LET fixed == COL_W_SL + COL_W_QTY + COL_W_RATE + COL_W_AMOUNT
        desc  == Max(120 * pt, content_width - fixed)
    IN  <<COL_W_SL, desc, COL_W_QTY, COL_W_RATE, COL_W_AMOUNT>>

HeaderRow == [kind |-> "header",
              cells |-> <<"Sl.", "Description", "Qty", "Rate", "Amount">>]

ItemRow(row) ==
    [kind |-> "item", sl |-> row.sl, description |-> row.description,
     qty |-> Fmt2(row.qty), rate |-> Fmt2(row.rate), amount |-> Fmt2(row.amount)]

ThankTotalRow(total) ==
    [kind |-> "thank_total", text |-> "Thank you for choosing KMC!",
     label |-> "Total:", total |-> Fmt2(total)]

\* Mutant: the summary is split into a closing row and a total row
build_invoice_table_split(lines, total, content_width, filler_height) ==
    LET data == <<HeaderRow>> \o [i \in 1..Len(lines) |-> ItemRow(lines[i])]
                \o <<[kind |-> "closing", text |-> "Thank you for choosing KMC!"],
                     ThankTotalRow(total)>>
    IN  [data |-> data,
         colWidths |-> _col_widths(content_width),
         rowHeights |-> [i \in 1..Len(data) |-> BODY_ROW_H]]

\* Mutant: no summary row is appended
build_invoice_table_nosummary(lines, total, content_width, filler_height) ==
    LET data == <<HeaderRow>> \o [i \in 1..Len(lines) |-> ItemRow(lines[i])]
    IN  [data |-> data,
         colWidths |-> _col_widths(content_width),
         rowHeights |-> [i \in 1..Len(data) |-> BODY_ROW_H]]

\* filler_height is accepted and not used: no filler row is built
build_invoice_table(lines, total, content_width, filler_height) ==
    LET data == <<HeaderRow>> \o [i \in 1..Len(lines) |-> ItemRow(lines[i])]
                \o <<ThankTotalRow(total)>>
    IN  [data |-> data,
         colWidths |-> _col_widths(content_width),
         rowHeights |-> [i \in 1..Len(data) |-> BODY_ROW_H]]

\* Table.wrapOn: with every row height given, the height is their sum
wrapOn(table) == SumSeq(table.rowHeights)

-----------------------------------------------------------------------------
(* app/pdf/pdf_draw.py *)

\* item.get("amount", 0): 0 when the key is missing
GetAmount(item) == IF item.hasAmount THEN item.amount ELSE 0

\* Mutant: the enumerate stops one short, the last item is left out
build_invoice_table_with_platypus_short(its, total, content_width, filler_height) ==
    build_invoice_table(
        [i \in 1..(Len(its) - 1) |->
            [sl |-> i, description |-> its[i].description, qty |-> its[i].qty,
             rate |-> its[i].rate, amount |-> GetAmount(its[i])]],
        total, content_width, filler_height)

build_invoice_table_with_platypus(its, total, content_width, filler_height) ==
    build_invoice_table(
        [i \in 1..Len(its) |->
            [sl |-> i, description |-> its[i].description, qty |-> its[i].qty,
             rate |-> its[i].rate, amount |-> GetAmount(its[i])]],
        total, content_width, filler_height)

\* The footer lines _footer_text_top_y and _draw_footer build
FooterLineCount(st) ==
      (IF "permit" \in st THEN 1 ELSE 0) + (IF "pan" \in st THEN 1 ELSE 0)
    + (IF "cheque_to" \in st THEN 2 ELSE 0) + (IF "phone" \in st THEN 1 ELSE 0)

_footer_text_top_y(st) ==
    (MARGIN_BOTTOM - FOOTER_SHIFT) + 6 * pt + 1 * mm
        + 11 * pt * Max(0, FooterLineCount(st) - 1)

\* to_decimal(item.get(key, 0) or 0): Decimal(str(x)), and Decimal("0") when
\* the value is not numeric
to_decimal(item, key) == IF key \in item.nonnum THEN 0 ELSE item[key]

\* float(item.get(key, 0) or 0) raises ValueError on a value that is not numeric
FloatRaises(item) == item.nonnum \cap {"qty", "rate", "amount"} # {}

\* to_decimal(item.get("amount", 0) or (qty * rate)); a non-numeric amount is
\* truthy and converts to Decimal("0")
ItemValue(item) ==
    IF "amount" \in item.nonnum THEN 0
    ELSE IF GetAmount(item) # 0 THEN GetAmount(item)
    ELSE DecMul(to_decimal(item, "qty"), to_decimal(item, "rate"))

\* The total _draw_table_with_platypus computes for a slice
SliceTotal(its) == sum_money([i \in 1..Len(its) |-> ItemValue(its[i])])

_draw_table_with_platypus(its, y_start, content_width, st) ==
    LET total == SliceTotal(its)
        probe == build_invoice_table_with_platypus(its, total, content_width, 0)
        h0 == wrapOn(probe)
        desired_bottom_y == _footer_text_top_y(st) + 12 * pt
        natural_bottom_y == y_start - h0
        filler == IF natural_bottom_y > desired_bottom_y
                  THEN Min(natural_bottom_y - desired_bottom_y, 40 * pt)
                  ELSE 0
        table == build_invoice_table_with_platypus(its, total, content_width, filler)
        h == wrapOn(table)
    IN  [data |-> table.data, rowHeights |-> table.rowHeights,
         colWidths |-> table.colWidths,
         given |-> Len(its), y_start |-> y_start, h0 |-> h0,
         natural_bottom_y |-> natural_bottom_y,
         desired_bottom_y |-> desired_bottom_y,
         filler |-> filler, h |-> h, y_bottom |-> y_start - h]

_draw_header == PAGE_HEIGHT - MARGIN_TOP - Max(LOGO_HEIGHT, RIGHT_LOGO_HEIGHT) - 3 * mm

_draw_invoice_block(y_top) == y_top - 6 * mm - LINE_STEP - 2 * mm

_draw_bill_to(cust, y_top) ==
    y_top - 8 * mm - 6 * mm - LINE_STEP
        - (IF cust.phone THEN LINE_STEP ELSE 0)
        - cust.address_lines * LINE_STEP
        - 2 * mm

new_page(cust) ==
    LET y_after_header == _draw_header
        info_y == _draw_invoice_block(y_after_header)
        bill_y == _draw_bill_to(cust, y_after_header)
        table_start_y == Min(info_y, bill_y) - TABLE_TOP_GAP + TABLE_Y_SHIFT
    IN  table_start_y - HEADER_ROW_HEIGHT

content_width == PAGE_WIDTH - MARGIN_LEFT - MARGIN_RIGHT

\* An empty canvas page, and the page after new_page has drawn its blocks
BlankPage == [header |-> FALSE, invoice_block |-> FALSE, bill_to |-> FALSE,
              tables |-> <<>>, footer |-> FALSE]
FreshPage == [header |-> TRUE, invoice_block |-> TRUE, bill_to |-> TRUE,
              tables |-> <<>>, footer |-> FALSE]

\* Mutant: nothing is counted as drawn
drawn_count_zero(slice) == 0

\* Mutant: one item is counted as drawn per table
drawn_count_one(slice) == 1

\* drawn = len(items[start_index:])
drawn_count(slice) == Len(slice)

-----------------------------------------------------------------------------
(* build_invoice_pdf *)

\* The prefixes of invoice numbers, and the marker of a missing row
Prefixes == {"KMC-", "INV-"}
NoRow == -1

\* Before build_invoice_pdf is called: no data, nothing drawn; an empty
\* database without the invoice_sequences table; no helper called yet
Init ==
    /\ items = <<>>
    /\ customer = [phone |-> FALSE, address_lines |-> 0]
    /\ settings = {}
    /\ pc = "idle"
    /\ start_index = 0
    /\ y = 0
    /\ pages = <<>>
    /\ cur = BlankPage
    /\ data_total = 0
    /\ log = {}
    /\ out_file = "absent"
    /\ db = [table |-> FALSE, table_c |-> FALSE,
             last |-> [p \in Prefixes |-> NoRow],
             committed |-> [p \in Prefixes |-> NoRow],
             invoice |-> {}]
    /\ op = [name |-> "none"]
    /\ issued = [p \in Prefixes |-> 0]
    /\ m_in = [fn |-> "none", values |-> <<>>]
    /\ m_out = 0
    /\ w_in = [called |-> FALSE, text |-> <<>>, max_width |-> 0]
    /\ w_out = <<>>
    /\ repo = [customer |-> {}, invoice |-> {}, item |-> {}]
    /\ rop = [name |-> "none"]
    /\ ov = [stage |-> "idle"]
    /\ ui = [opened |-> FALSE, shown |-> [prefix |-> "", digits |-> <<>>],
             last |-> [name |-> "none"], pdfs |-> {}]
    /\ race = [last |-> NoRow, pending |-> NoRow, lock |-> 0, calls |-> 0,
               returned |-> <<>>,
               s |-> [i \in {1, 2} |-> [pc |-> "idle", n |-> 0, current |-> 0]]]

\* build_invoice_pdf(out_path, data) is called: items = list(data["items"]),
\* y = new_page(first_page=True), start_index = 0.  The caller passes the
\* total of the items it collected.
Begin ==
    /\ pc = "idle"
    /\ \E n \in 0..MaxItems, a \in PoolIdx, b \in PoolIdx : items' = MakeItems(n, a, b)
    /\ customer' \in [phone : BOOLEAN, address_lines : 0..MaxAddrLines]
    /\ settings' \in SUBSET FooterKeys
    /\ data_total' = Fmt2(SliceTotal(items'))
    /\ cur' = FreshPage
    /\ y' = new_page(customer')
    /\ start_index' = 0
    /\ pc' = "loop"
    /\ UNCHANGED <<pages, log, out_file, seqVars, moneyVars, wrapVars, repoVars, overlayVars,
                   flowVars, raceVars>>

\* build_invoice_pdf is called with data as any caller may pass it: values
\* that are not numeric, a total that differs from the items' sum by a
\* hundredth, and an out_path where an older file may exist
BeginData ==
    /\ pc = "idle"
    /\ \E n \in 0..MaxDataItems, a \in DataPoolIdx, b \in DataPoolIdx :
          items' = MakeItems(n, a, b)
    /\ customer' = [phone |-> FALSE, address_lines |-> 0]
    /\ settings' = {}
    /\ \E d \in {0, 1} : data_total' = Fmt2(SliceTotal(items')) + d
    /\ out_file' \in {"absent", "old"}
    /\ cur' = FreshPage
    /\ y' = new_page(customer')
    /\ start_index' = 0
    /\ pc' = "loop"
    /\ UNCHANGED <<pages, log, seqVars, moneyVars, wrapVars, repoVars, overlayVars,
                   flowVars, raceVars>>

\* One iteration of "while start_index < len(items)".  The ValueError of a
\* float() in build_invoice_table_with_platypus is caught nowhere and ends
\* build_invoice_pdf before anything is written.
LoopBody ==
    /\ pc = "loop"
    /\ start_index < Len(items)
    /\ Len(pages) < MaxPages
    /\ LET slice == SubSeq(items, start_index + 1, Len(items))
           table == _draw_table_with_platypus(slice, y, content_width, settings)
           drawn == drawn_count(slice)
           withTable == [cur EXCEPT !.tables = Append(@, table)]
       IN  IF \E i \in 1..Len(slice) : FloatRaises(slice[i])
           THEN /\ pc' = "raised"
                /\ UNCHANGED <<pages, cur, y, start_index>>
           ELSE IF drawn = 0
           THEN /\ pages' = Append(pages, withTable)
                /\ cur' = FreshPage
                /\ y' = new_page(customer)
                /\ start_index' = start_index
                /\ pc' = "loop"
           ELSE IF start_index + drawn < Len(items)
           THEN /\ pages' = Append(pages, withTable)
                /\ cur' = FreshPage
                /\ y' = new_page(customer)
                /\ start_index' = start_index + drawn
                /\ pc' = "loop"
           ELSE /\ pages' = pages
                /\ cur' = [withTable EXCEPT !.footer = TRUE]
                /\ y' = table.y_bottom
                /\ start_index' = start_index + drawn
                /\ pc' = "loop"
    /\ UNCHANGED <<items, customer, settings, data_total, log, out_file,
                   seqVars, moneyVars, wrapVars, repoVars, overlayVars,
                   flowVars, raceVars>>

\* The loop is left and c.save() emits the page in progress and writes the
\* document to out_path
Save ==
    /\ pc = "loop"
    /\ start_index >= Len(items)
    /\ pages' = IF cur # BlankPage THEN Append(pages, cur) ELSE pages
    /\ cur' = BlankPage
    /\ out_file' = "complete"
    /\ pc' = "done"
    /\ UNCHANGED <<items, customer, settings, start_index, y, data_total, log,
                   seqVars, moneyVars, wrapVars, repoVars, overlayVars,
                   flowVars, raceVars>>

\* c.save() fails with an I/O error.  The canvas was opened on out_path
\* itself, so the failure comes either before the file is opened for writing
\* (it is left as it was) or after (a truncated file stays at out_path).
SaveFails ==
    /\ pc = "loop"
    /\ start_index >= Len(items)
    /\ \E opened \in BOOLEAN : out_file' = IF opened THEN "partial" ELSE out_file
    /\ pc' = "io_error"
    /\ UNCHANGED <<items, customer, settings, start_index, y, pages, cur,
                   data_total, log, seqVars, moneyVars, wrapVars, repoVars, overlayVars,
                   flowVars, raceVars>>

Next == Begin \/ LoopBody \/ Save

Spec == Init /\ [][Next]_vars

NextData == BeginData \/ LoopBody \/ Save \/ SaveFails

\* build_invoice_pdf on malformed data and with failing output
SpecData == Init /\ [][NextData]_vars

-----------------------------------------------------------------------------
(* The document drawn so far *)

\* The emitted pages, followed by the page in progress while one is open
Doc == IF cur = BlankPage THEN pages ELSE Append(pages, cur)

RECURSIVE TablesOf(_)
TablesOf(ps) == IF ps = <<>> THEN <<>> ELSE ps[1].tables \o TablesOf(Tail(ps))

AllTables == TablesOf(Doc)

IsItemRow(r) == r.kind = "item"
IsSummaryRow(r) == r.kind = "thank_total"

ItemRowsOf(t) == SelectSeq(t.data, IsItemRow)
SummaryRowsOf(t) == SelectSeq(t.data, IsSummaryRow)

RECURSIVE ItemRowsIn(_)
ItemRowsIn(ts) == IF ts = <<>> THEN <<>> ELSE ItemRowsOf(ts[1]) \o ItemRowsIn(Tail(ts))

RECURSIVE SummaryRowsIn(_)
SummaryRowsIn(ts) ==
    IF ts = <<>> THEN <<>> ELSE SummaryRowsOf(ts[1]) \o SummaryRowsIn(Tail(ts))

DrawnItemRows == ItemRowsIn(AllTables)

Last(s) == s[Len(s)]

\* The table drawn by the step from the current state to the next one
NewTable == IF Len(pages') > Len(pages) THEN Last(Last(pages').tables)
            ELSE Last(cur'.tables)

\* The whole list with its summary row fits between the table start of a
\* fresh page and the bottom margin
FitsOnePage == (Len(items) + 2) * BODY_ROW_H <= new_page(customer) - MARGIN_BOTTOM

-----------------------------------------------------------------------------
(* Claims *)

\* C1: the pagination loop of build_invoice_pdf terminates for every item
\* list: the number of remaining (undrawn) items is never negative and every
\* step taken inside the loop either leaves the loop or strictly reduces it,
\* so the loop runs at most Len(items) times.
C1_LoopTerminates ==
    [][pc = "loop" =>
          \/ pc' = "done"
          \/ /\ Len(items') - start_index' < Len(items) - start_index
             /\ Len(items') - start_index' >= 0]_vars

C1_Witness == pc = "done" /\ Len(items) >= 2 /\ start_index = Len(items)

\* C2: a list longer than what fits in the body height of one page makes a
\* document of at least 2 pages, and no page receives more rows than fit
\* between its table start and the bottom margin.
C2_OverflowBreaksPage ==
    pc = "done" =>
        /\ ~FitsOnePage => Len(pages) >= 2
        /\ \A i \in 1..Len(AllTables) :
              AllTables[i].h <= AllTables[i].y_start - MARGIN_BOTTOM

\* C3: the bottom of the table that holds the summary row is never below the
\* bottom margin of its page.
C3_SummaryNotClipped ==
    \A i \in 1..Len(AllTables) :
        SummaryRowsOf(AllTables[i]) # <<>> => AllTables[i].y_bottom >= MARGIN_BOTTOM

\* C4: in the finished document every item is drawn exactly once across all
\* pages, in the order of the input list.
C4_EachItemOnce ==
    pc = "done" =>
        /\ Len(DrawnItemRows) = Len(items)
        /\ \A i \in 1..Len(DrawnItemRows) :
              /\ DrawnItemRows[i].description = items[i].description
              /\ DrawnItemRows[i].qty = Fmt2(items[i].qty)
              /\ DrawnItemRows[i].rate = Fmt2(items[i].rate)

C4_Witness == pc = "done" /\ Len(items) >= 3 /\ Len(DrawnItemRows) = Len(items)

\* C5: for a non-empty list the summary row is drawn exactly once in the
\* document, on the final page, right after the row of the last item.
C5_SummaryOnceOnLastPage ==
    pc = "done" /\ Len(items) > 0 =>
        /\ Len(SummaryRowsIn(AllTables)) = 1
        /\ Len(pages) >= 1
        /\ LET ts == Last(pages).tables
           IN  /\ ts # <<>>
               /\ LET d == Last(ts).data
                  IN  /\ Len(d) >= 2
                      /\ IsSummaryRow(d[Len(d)])
                      /\ IsItemRow(d[Len(d) - 1])
                      /\ d[Len(d) - 1].description = Last(items).description

C5_Witness ==
    pc = "done" /\ Len(items) >= 2 /\ Len(SummaryRowsIn(AllTables)) = 1

\* C6: an empty item list gives exactly one page with header, recipient
\* block, a table of the header row and a total row showing 0.00, and the
\* footer.
C6_EmptyListDocument ==
    pc = "done" /\ items = <<>> =>
        /\ Len(pages) = 1
        /\ pages[1].header /\ pages[1].bill_to /\ pages[1].footer
        /\ Len(pages[1].tables) = 1
        /\ pages[1].tables[1].data = <<HeaderRow, ThankTotalRow(0)>>

\* C7: the amount displayed in a table's total row equals the sum of the
\* amounts displayed in its item rows.
C7_TotalIsSumOfRows ==
    \A i \in 1..Len(AllTables) :
        LET t == AllTables[i]
            rows == ItemRowsOf(t)
        IN  SummaryRowsOf(t) # <<>> =>
                SummaryRowsOf(t)[1].total
                    = SumSeq([k \in 1..Len(rows) |-> rows[k].amount])

\* C8: a call of _draw_table_with_platypus draws every item of the slice it
\* is given in one table, and the caller's drawn count is then >= 1.
C8_SliceDrawnWhole ==
    [][pc = "loop" /\ pc' = "loop" =>
          /\ Len(ItemRowsOf(NewTable)) = Len(items) - start_index
          /\ start_index' - start_index = Len(ItemRowsOf(NewTable))
          /\ start_index' - start_index >= 1]_vars

C8_Witness ==
    /\ pc = "loop" /\ start_index >= 2 /\ cur.tables # <<>>
    /\ Len(ItemRowsOf(Last(cur.tables))) = start_index

\* C9: when the probe table's natural bottom lies above the desired
\* position, the final table has a filler row between the last item row and
\* the summary row and is taller than the probe by min(gap, 40).
C9_FillerClosesGap ==
    \A i \in 1..Len(AllTables) :
        LET t == AllTables[i]
        IN  t.natural_bottom_y > t.desired_bottom_y =>
              /\ \E k \in 2..(Len(t.data) - 1) : t.data[k].kind = "filler"
              /\ t.h = t.h0 + Min(t.natural_bottom_y - t.desired_bottom_y, 40 * pt)

C11_NonNumericNoRaise == pc # "raised"

\* C12: when data["total"] disagrees with the sum recomputed from the items,
\* the finished document shows the recomputed sum and the discrepancy has
\* been signalled.
C12_DiscrepancySurfaced ==
    pc = "done" /\ items # <<>> /\ data_total # Fmt2(SliceTotal(items)) =>
        /\ \A i \in 1..Len(AllTables) :
              SummaryRowsOf(AllTables[i]) # <<>> =>
                  SummaryRowsOf(AllTables[i])[1].total = Fmt2(SliceTotal(items))
        /\ log # {}

\* C13: if rendering fails before completion, the file at out_path is absent,
\* unchanged or a completely written document, never a partial one.
C13_NoPartialFile ==
    pc \in {"raised", "io_error"} => out_file \in {"absent", "old", "complete"}

---------------------------------------------------------------------------
(* app/core/numbering.py: the per-prefix invoice number sequence.          *)
(* db.last is the invoice_sequences table as the session sees it (NoRow: no *)
(* row for the prefix), db.committed what a new session would see,          *)
(* db.table / db.table_c whether the table exists, db.invoice the numbers   *)
(* of the stored invoices.  An invoice number is its prefix and the         *)
(* sequence of decimal digits that follows it.                              *)

SeqWidth == 4

RECURSIVE Digits(_)
Digits(n) == IF n < 10 THEN <<n>> ELSE Append(Digits(n \div 10), n % 10)

\* f"{prefix}{n:0{width}d}"
_format(prefix, n) ==
    LET ds == Digits(n)
        pad == IF Len(ds) >= SeqWidth THEN <<>> ELSE [i \in 1..(SeqWidth - Len(ds)) |-> 0]
    IN  [prefix |-> prefix, digits |-> pad \o ds]

\* CAST(SUBSTR(number, LENGTH(prefix) + 1) AS INTEGER)
RECURSIVE DigitsValue(_)
DigitsValue(ds) ==
    IF ds = <<>> THEN 0
    ELSE 10 * DigitsValue(SubSeq(ds, 1, Len(ds) - 1)) + ds[Len(ds)]

SuffixValue(number) == DigitsValue(number.digits)

\* CREATE TABLE IF NOT EXISTS invoice_sequences
_ensure_table(d) == [d EXCEPT !.table = TRUE]

\* db_session.commit()
commit(d) == [d EXCEPT !.committed = d.last, !.table_c = d.table]

next_invoice_number_nocommit(prefix, d0) ==
    LET d == _ensure_table(d0)
        current == IF d.last[prefix] = NoRow THEN 1 ELSE d.last[prefix] + 1
    IN  [db |-> [d EXCEPT !.last[prefix] = current], ret |-> _format(prefix, current)]

\* UPDATE last = last + 1; INSERT last = 1 when no row was updated; commit
next_invoice_number(prefix, d0) ==
    LET d == _ensure_table(d0)
        current == IF d.last[prefix] = NoRow THEN 1 ELSE d.last[prefix] + 1
    IN  [db |-> commit([d EXCEPT !.last[prefix] = current]),
         ret |-> _format(prefix, current)]

\* MAX(CAST(SUBSTR(number, plen + 1) AS INTEGER)) over the invoices whose
\* number starts with the prefix, 0 when there is none
derived_last(prefix, d) ==
    LET vals == {SuffixValue(num) : num \in {x \in d.invoice : x.prefix = prefix}}
    IN  IF vals = {} THEN 0 ELSE CHOOSE v \in vals : \A u \in vals : u <= v

peek_next_invoice_number_consuming(prefix, d0) == next_invoice_number(prefix, d0)

\* SELECT last: last + 1 when the row exists, else derived from the invoice
\* table; nothing is written and nothing committed
peek_next_invoice_number(prefix, d0) ==
    LET d == _ensure_table(d0)
    IN  [db |-> d,
         ret |-> IF d.last[prefix] # NoRow
                 THEN _format(prefix, d.last[prefix] + 1)
                 ELSE _format(prefix, derived_last(prefix, d) + 1)]

bump_sequence_to_at_least_set(prefix, n, d0) ==
    [db |-> commit([_ensure_table(d0) EXCEPT !.last[prefix] = n]), ret |-> <<>>]

\* INSERT n when there is no row; UPDATE to n when last < n; else nothing
bump_sequence_to_at_least(prefix, n, d0) ==
    LET d == _ensure_table(d0)
    IN  [db |-> IF d.last[prefix] = NoRow \/ d.last[prefix] < n
                THEN commit([d EXCEPT !.last[prefix] = n])
                ELSE d,
         ret |-> <<>>]

\* next_invoice_number(prefix, session) is called
NextNumberOf(p) ==
    /\ db.last[p] < MaxSeq
    /\ LET r == next_invoice_number(p, db)
       IN  /\ db' = r.db
           /\ op' = [name |-> "next", prefix |-> p, n |-> 0, ret |-> r.ret]
           /\ issued' = [issued EXCEPT ![p] = SuffixValue(r.ret)]
    /\ UNCHANGED <<pdfVars, moneyVars, wrapVars, repoVars, overlayVars,
                   flowVars, raceVars>>

NextNumber == \E p \in Prefixes : NextNumberOf(p)

\* peek_next_invoice_number(prefix, session) is called
PeekOf(p) ==
    /\ LET r == peek_next_invoice_number(p, db)
       IN  /\ db' = r.db
           /\ op' = [name |-> "peek", prefix |-> p, n |-> 0, ret |-> r.ret]
    /\ UNCHANGED <<issued, pdfVars, moneyVars, wrapVars, repoVars, overlayVars,
                   flowVars, raceVars>>

Peek == \E p \in Prefixes : PeekOf(p)

\* bump_sequence_to_at_least(prefix, n, session) is called
BumpOf(p, n) ==
    /\ LET r == bump_sequence_to_at_least(p, n, db)
       IN  /\ db' = r.db
           /\ op' = [name |-> "bump", prefix |-> p, n |-> n, ret |-> r.ret]
    /\ UNCHANGED <<issued, pdfVars, moneyVars, wrapVars, repoVars, overlayVars,
                   flowVars, raceVars>>

Bump == \E p \in Prefixes, n \in 0..MaxSeq : BumpOf(p, n)

\* An invoice with a number not used before is stored and committed
StoreInvoice ==
    /\ \E p \in Prefixes, n \in 1..MaxStored :
          /\ _format(p, n) \notin db.invoice
          /\ db' = [db EXCEPT !.invoice = @ \cup {_format(p, n)}]
    /\ UNCHANGED <<op, issued, pdfVars, moneyVars, wrapVars, repoVars, overlayVars,
                   flowVars, raceVars>>

\* The session is closed: what was not committed is rolled back.  Whether
\* an uncommitted CREATE TABLE survives depends on the driver.
CloseSession ==
    /\ db.last # db.committed \/ db.table # db.table_c
    /\ \E t \in {db.table, db.table_c} :
          db' = [db EXCEPT !.last = db.committed, !.table = t, !.table_c = t]
    /\ UNCHANGED <<op, issued, pdfVars, moneyVars, wrapVars, repoVars, overlayVars,
                   flowVars, raceVars>>

NextNum == NextNumber \/ Peek \/ Bump \/ StoreInvoice \/ CloseSession

\* The numbering functions called in any order on one session at a time
SpecNum == Init /\ [][NextNum]_vars

\* The stored last of a prefix, 0 when it has no row
LastOr0(d, p) == IF d.last[p] = NoRow THEN 0 ELSE d.last[p]

\* C14: every call of next_invoice_number returns the prefix followed by a
\* suffix that is one more than the stored last before the call (1 when the
\* prefix had no row) and greater than every suffix it returned before for
\* that prefix, and the new value is committed when it returns.
C14_NextIncrements ==
    [][\A p \in Prefixes : NextNumberOf(p) =>
          /\ op'.ret.prefix = p
          /\ SuffixValue(op'.ret) = LastOr0(db, p) + 1
          /\ SuffixValue(op'.ret) > issued[p]
          /\ db'.last[p] = SuffixValue(op'.ret)
          /\ db'.committed[p] = SuffixValue(op'.ret)]_vars

\* Two calls in a row for one prefix have happened and a session was closed
C14_Witness == issued["KMC-"] = 2 /\ op.name = "next" /\ db.committed["KMC-"] = 2

\* C15: peek_next_invoice_number leaves every prefix's row (or its absence)
\* as it was, in the session and in the committed database, and a second
\* peek right after it returns the same number.
C15_PeekReadOnly ==
    [][\A p \in Prefixes : PeekOf(p) =>
          /\ db'.last = db.last
          /\ db'.committed = db.committed
          /\ db'.invoice = db.invoice
          /\ peek_next_invoice_number(p, db').ret = op'.ret]_vars

\* A peek on a prefix with a row, and one answered from the invoice table
C15_Witness ==
    /\ op.name = "peek"
    /\ db.last[op.prefix] = NoRow
    /\ db.invoice # {}
    /\ SuffixValue(op.ret) = 2
    /\ db.last["KMC-"] = 1 \/ db.last["INV-"] = 1

\* C16: after bump_sequence_to_at_least(prefix, n) the stored last of the
\* prefix is the larger of its previous value and n (n when it had no row),
\* never lower than before, and no other prefix changes.
C16_BumpIsMax ==
    [][\A p \in Prefixes, n \in 0..MaxSeq : BumpOf(p, n) =>
          /\ db'.last[p] = (IF db.last[p] = NoRow THEN n ELSE Max(db.last[p], n))
          /\ db'.last[p] >= db.last[p]
          /\ db'.committed[p] = db'.last[p]
          /\ \A q \in Prefixes \ {p} : db'.last[q] = db.last[q]]_vars

\* A bump with n below the stored last has happened
C16_Witness == op.name = "bump" /\ db.last[op.prefix] # NoRow /\ op.n < db.last[op.prefix]

---------------------------------------------------------------------------
(* app/core/currency.py: the money helpers applied to values with up to    *)
(* four decimals, in units of 10^-4.                                       *)

\* The values summed: 0.10, half a cent, 0.125, 0.3349 and a negative one
SumValues == {1000, 50, 1250, 3349, -50}

\* round_money(x) is called, once per run, as are the other two helpers
RoundMoney ==
    /\ m_in.fn = "none"
    /\ \E x \in -MaxMoney..MaxMoney :
          /\ m_in' = [fn |-> "round_money", values |-> <<x>>]
          /\ m_out' = round_money(x)
    /\ UNCHANGED <<pdfVars, seqVars, wrapVars, repoVars, overlayVars,
                   flowVars, raceVars>>

\* round_money_dec(x) is called
RoundMoneyDec ==
    /\ m_in.fn = "none"
    /\ \E x \in -MaxMoney..MaxMoney :
          /\ m_in' = [fn |-> "round_money_dec", values |-> <<x>>]
          /\ m_out' = round_money_dec(x)
    /\ UNCHANGED <<pdfVars, seqVars, wrapVars, repoVars, overlayVars,
                   flowVars, raceVars>>

\* sum_money(values) is called
SumMoney ==
    /\ m_in.fn = "none"
    /\ \E n \in 0..MaxSumLen, a \in SumValues, b \in SumValues :
          /\ m_in' = [fn |-> "sum_money",
                      values |-> [i \in 1..n |-> IF i % 2 = 1 THEN a ELSE b]]
          /\ m_out' = sum_money(m_in'.values)
    /\ UNCHANGED <<pdfVars, seqVars, wrapVars, repoVars, overlayVars,
                   flowVars, raceVars>>

NextMoney == RoundMoney \/ RoundMoneyDec \/ SumMoney

SpecMoney == Init /\ [][NextMoney]_vars

Abs(x) == IF x < 0 THEN -x ELSE x

\* q is d rounded to a whole number of hundredths, ties to the even one
IsHalfEvenCents(q, d) ==
    /\ q % CentStep = 0
    /\ 2 * Abs(q - d) <= CentStep
    /\ 2 * Abs(q - d) = CentStep => (q \div CentStep) % 2 = 0

\* C17: round_money and round_money_dec return the multiple of 0.01 nearest
\* to the input, and for an input exactly halfway between two cents the one
\* with the even last digit: 0.125 -> 0.12, 0.135 -> 0.14, 2.675 -> 2.68.
C17_RoundHalfEven ==
    m_in.fn \in {"round_money", "round_money_dec"} =>
        /\ IsHalfEvenCents(m_out, m_in.values[1])
        /\ m_in.values[1] = 1250 => m_out = 1200
        /\ m_in.values[1] = 1350 => m_out = 1400
        /\ m_in.values[1] = 26750 => m_out = 26800

\* 2.675 has been rounded
C17_Witness == m_in.fn = "round_money_dec" /\ m_in.values = <<26750>> /\ m_out = 26800

\* C18: sum_money returns the exact sum of its values rounded once, half to
\* even, to hundredths; ten values of 0.10 give exactly 1.00.
C18_SumRoundedOnce ==
    m_in.fn = "sum_money" =>
        /\ IsHalfEvenCents(m_out, SumSeq(m_in.values))
        /\ m_in.values = [i \in 1..10 |-> 1000] => m_out = 10000

\* Ten values of 0.10 have been summed
C18_Witness ==
    m_in.fn = "sum_money" /\ m_in.values = [i \in 1..10 |-> 1000] /\ m_out = 10000

---------------------------------------------------------------------------
(* app/pdf/pdf_draw.py: wrap_text.  A string is the sequence of its         *)
(* characters; ELLIPSIS stands for the one character U+2026.                *)

ELLIPSIS == "..."

\* The characters of the texts tried: a narrow and a wide letter, a space
\* and a line feed
Chars == {"i", "W", " ", "\n"}

\* str.split() and str.strip() treat these as whitespace
IsSpace(ch) == ch \in {" ", "\n", "\r", "\t"}

\* pdfmetrics.stringWidth(s, font_name, font_size): the sum of the advance
\* widths of the characters, in tenths of the font size (Helvetica: i 0.222,
\* W 0.944, space 0.278, ellipsis 1.0); a control character has no glyph
CharWidth(ch) ==
    IF ch = "i" THEN 2
    ELSE IF ch = "W" THEN 9
    ELSE IF ch = " " THEN 3
    ELSE IF ch = ELLIPSIS THEN 10
    ELSE 0

RECURSIVE width(_)
width(str) == IF str = <<>> THEN 0 ELSE CharWidth(str[1]) + width(Tail(str))

\* text.replace("\r", " ").replace("\n", " ")
ReplaceNewlines(str) ==
    [i \in 1..Len(str) |-> IF str[i] \in {"\r", "\n"} THEN " " ELSE str[i]]

\* str.split(): the maximal runs of characters that are not whitespace
RECURSIVE SplitFrom(_, _, _)
SplitFrom(str, word, acc) ==
    IF str = <<>> THEN (IF word = <<>> THEN acc ELSE Append(acc, word))
    ELSE IF IsSpace(str[1])
         THEN SplitFrom(Tail(str), <<>>, IF word = <<>> THEN acc ELSE Append(acc, word))
         ELSE SplitFrom(Tail(str), Append(word, str[1]), acc)

split(str) == SplitFrom(str, <<>>, <<>>)

\* " ".join(words)
RECURSIVE join(_)
join(words) ==
    IF words = <<>> THEN <<>>
    ELSE IF Len(words) = 1 THEN words[1]
    ELSE words[1] \o <<" ">> \o join(Tail(words))

\* str.strip()
RECURSIVE strip(_)
strip(str) ==
    IF str = <<>> THEN <<>>
    ELSE IF IsSpace(str[1]) THEN strip(Tail(str))
    ELSE IF IsSpace(str[Len(str)]) THEN strip(SubSeq(str, 1, Len(str) - 1))
    ELSE str

\* s = " ".join(text.replace(...).split()): whitespace collapsed
Collapse(text) == join(split(ReplaceNewlines(text)))

CutWord_whole(cut, max_width) == cut

\* while cut and width(cut + ELLIPSIS) > max_width: cut = cut[:-1]
RECURSIVE CutWord(_, _)
CutWord(cut, max_width) ==
    IF cut # <<>> /\ width(Append(cut, ELLIPSIS)) > max_width
    THEN CutWord(SubSeq(cut, 1, Len(cut) - 1), max_width)
    ELSE cut

\* The for loop of fit_line from word i on, with line_words collected so far
RECURSIVE FitFrom(_, _, _, _)
FitFrom(words, i, line_words, max_width) ==
    IF i > Len(words)
    THEN [line |-> join(line_words), rem |-> <<>>, overflow |-> FALSE]
    ELSE LET w == words[i]
             trial == strip(join(Append(line_words, w)))
         IN  IF line_words = <<>> /\ width(w) > max_width
             THEN LET cut == CutWord(w, max_width)
                  IN  [line |-> IF cut # <<>> THEN Append(cut, ELLIPSIS) ELSE <<ELLIPSIS>>,
                       rem |-> SubSeq(words, i + 1, Len(words)),
                       overflow |-> TRUE]
             ELSE IF width(trial) <= max_width
             THEN FitFrom(words, i + 1, Append(line_words, w), max_width)
             ELSE [line |-> join(line_words),
                   rem |-> SubSeq(words, i, Len(words)),
                   overflow |-> TRUE]

fit_line_one_word(words, max_width) ==
    IF words = <<>> THEN [line |-> <<>>, rem |-> <<>>, overflow |-> FALSE]
    ELSE [line |-> words[1], rem |-> Tail(words), overflow |-> Len(words) > 1]

\* fit_line(words): the line built from the leading words that fit, the
\* words left over, and whether anything was left or cut
fit_line(words, max_width) ==
    IF words = <<>> THEN [line |-> <<>>, rem |-> <<>>, overflow |-> FALSE]
    ELSE FitFrom(words, 1, <<>>, max_width)

\* while t and width(t) > max_width:
\*     t = t[:-2] + ELLIPSIS if t.endswith(" " + ELLIPSIS) else t[:-1]
RECURSIVE TruncateLine2(_, _)
TruncateLine2(t, max_width) ==
    IF t # <<>> /\ width(t) > max_width
    THEN IF Len(t) >= 2 /\ t[Len(t) - 1] = " " /\ t[Len(t)] = ELLIPSIS
         THEN TruncateLine2(Append(SubSeq(t, 1, Len(t) - 2), ELLIPSIS), max_width)
         ELSE TruncateLine2(SubSeq(t, 1, Len(t) - 1), max_width)
    ELSE t

wrap_text_all_lines(text, max_width) ==
    LET words == split(ReplaceNewlines(text))
    IN  IF words = <<>> THEN <<>> ELSE words

\* wrap_text(c, text, max_width, font_name, font_size)
wrap_text(text, max_width) ==
    LET s == Collapse(text)
        words == split(s)    \* s.split(" "): s has single spaces only
        f1 == fit_line(words, max_width)
        f2 == fit_line(f1.rem, max_width)
        t == TruncateLine2(strip(f2.line \o <<" ", ELLIPSIS>>), max_width)
    IN  IF s = <<>> THEN << <<>> >>
        ELSE IF f1.rem = <<>> THEN <<f1.line>>
        ELSE IF f2.rem # <<>> THEN <<f1.line, IF t # <<>> THEN t ELSE <<ELLIPSIS>> >>
        ELSE <<f1.line, f2.line>>

\* wrap_text is called, once per run, with a text and a width
WrapText ==
    /\ ~w_in.called
    /\ \E n \in 0..MaxTextLen, mw \in 0..MaxWidth :
          \E text \in [1..n -> Chars] :
              /\ w_in' = [called |-> TRUE, text |-> text, max_width |-> mw]
              /\ w_out' = wrap_text(text, mw)
    /\ UNCHANGED <<pdfVars, seqVars, moneyVars, repoVars, overlayVars,
                   flowVars, raceVars>>

NextWrap == WrapText

SpecWrap == Init /\ [][NextWrap]_vars

\* C19: wrap_text returns one or two lines, and exactly one empty line for
\* a text that is empty or consists of whitespace only.
C19_OneOrTwoLines ==
    w_in.called =>
        /\ Len(w_out) \in {1, 2}
        /\ (\A i \in 1..Len(w_in.text) : IsSpace(w_in.text[i])) => w_out = << <<>> >>

\* A text of three words too wide for one line was cut down to two lines
C19_Witness ==
    /\ w_in.called
    /\ Len(split(w_in.text)) = 3
    /\ width(w_in.text) > w_in.max_width
    /\ Len(w_out) = 2

\* C20 as stated: a text whose measured width is at most max_width comes
\* back as one line identical to the text.
C20_FitsUnchanged ==
    w_in.called /\ width(w_in.text) <= w_in.max_width => w_out = <<w_in.text>>

\* C20: a text whose whitespace-collapsed form (runs of whitespace replaced
\* by one space, none at either end) measures at most max_width comes back
\* as one line equal to that form, hence identical to a text that has no
\* whitespace other than single spaces between words.
C20_FitsCollapsed ==
    w_in.called /\ width(Collapse(w_in.text)) <= w_in.max_width =>
        /\ w_out = <<Collapse(w_in.text)>>
        /\ (w_in.text = Collapse(w_in.text) => w_out = <<w_in.text>>)

\* Two words that fit on the line came back unchanged
C20_Witness ==
    /\ w_in.called
    /\ w_in.text = <<"i", " ", "W">>
    /\ width(w_in.text) <= w_in.max_width
    /\ w_out = <<w_in.text>>

\* The text is one run of characters without whitespace
IsRun(text) == text # <<>> /\ \A i \in 1..Len(text) : ~IsSpace(text[i])

\* line is a leading part of text followed by the ellipsis
IsPrefixWithEllipsis(line, text) ==
    /\ line # <<>>
    /\ line[Len(line)] = ELLIPSIS
    /\ Len(line) - 1 <= Len(text)
    /\ SubSeq(line, 1, Len(line) - 1) = SubSeq(text, 1, Len(line) - 1)

\* C21 as stated: a single run wider than max_width comes back as one line,
\* a leading part of the run followed by the ellipsis, with fewer characters
\* than the run.
C21_RunTruncatedShorter ==
    w_in.called /\ IsRun(w_in.text) /\ width(w_in.text) > w_in.max_width =>
        /\ Len(w_out) = 1
        /\ IsPrefixWithEllipsis(w_out[1], w_in.text)
        /\ Len(w_out[1]) < Len(w_in.text)

\* C21: a single run wider than max_width comes back as one line, a leading
\* part of the run with at least one character cut off, followed by the
\* ellipsis; it has no more characters than the run (as many when exactly
\* one character is cut off, so a run of one character gives the ellipsis
\* alone), and it fits max_width unless it is the ellipsis alone.
C21_RunTruncated ==
    w_in.called /\ IsRun(w_in.text) /\ width(w_in.text) > w_in.max_width =>
        /\ Len(w_out) = 1
        /\ IsPrefixWithEllipsis(w_out[1], w_in.text)
        /\ Len(w_out[1]) <= Len(w_in.text)
        /\ Len(w_in.text) = 1 => w_out[1] = <<ELLIPSIS>>
        /\ width(w_out[1]) <= w_in.max_width \/ w_out[1] = <<ELLIPSIS>>

\* A run of five characters was cut to fewer characters plus the ellipsis
C21_Witness ==
    /\ w_in.called
    /\ IsRun(w_in.text)
    /\ Len(w_in.text) = 5
    /\ width(w_in.text) > w_in.max_width
    /\ Len(w_out[1]) \in 2..4

\* Words are left over after wrap_text has filled its second line
WordsRemainAfterLine2(text, max_width) ==
    LET f1 == fit_line(split(Collapse(text)), max_width)
        f2 == fit_line(f1.rem, max_width)
    IN  f1.rem # <<>> /\ f2.rem # <<>>

\* C22: when words remain after line 2, the second line returned ends with
\* the ellipsis and measures at most max_width.
C22_Line2EndsWithEllipsis ==
    w_in.called /\ WordsRemainAfterLine2(w_in.text, w_in.max_width) =>
        /\ Len(w_out) = 2
        /\ w_out[2] # <<>>
        /\ w_out[2][Len(w_out[2])] = ELLIPSIS
        /\ width(w_out[2]) <= w_in.max_width

---------------------------------------------------------------------------
(* The description cells of the rendered table *)

BODY_FONT_SIZE == 10

\* The width of the description column in the unit of width(), tenths of
\* the body font size
DescColumnWidth == (_col_widths(content_width)[2] * 10) \div (BODY_FONT_SIZE * pt)

\* The length of a run of wide letters that is two letters wider than the
\* description column
LongRunLen == DescColumnWidth \div CharWidth("W") + 2

\* The text numbered i that a caller passes as description: the second one
\* is one unbroken run wider than the column (scenario C), the others are
\* short runs
DescriptionText(i) ==
    IF i = 2 THEN [k \in 1..LongRunLen |-> "W"] ELSE [k \in 1..i |-> "i"]

\* The lines the table shows in the description cell of an item row: the
\* string str(item.get("description", "")), which Table draws as it is
CellLines(row) == <<DescriptionText(row.description)>>

\* C23: the description cell of every item row is the output of wrap_text
\* for the column width; a run wider than the column is shown as one line
\* ending in the ellipsis that fits the column; every row has the standard
\* row height.
C23_DescriptionShaped ==
    pc = "done" =>
        \A i \in 1..Len(AllTables) :
            /\ \A k \in 1..Len(AllTables[i].data) :
                  IsItemRow(AllTables[i].data[k]) =>
                      LET r == AllTables[i].data[k]
                          text == DescriptionText(r.description)
                      IN  /\ CellLines(r) = wrap_text(text, DescColumnWidth)
                          /\ width(text) > DescColumnWidth =>
                                /\ Len(CellLines(r)) = 1
                                /\ IsPrefixWithEllipsis(CellLines(r)[1], text)
                                /\ width(CellLines(r)[1]) <= DescColumnWidth
            /\ \A k \in 1..Len(AllTables[i].rowHeights) :
                  AllTables[i].rowHeights[k] = BODY_ROW_H

---------------------------------------------------------------------------
(* app/data/repo.py: customers, invoices and items.  Every function runs   *)
(* in one session_scope: it commits when the body returns and rolls back   *)
(* when the body raises, so a call that raises leaves the tables as they   *)
(* were.                                                                   *)

CustomerNames == {"Asha", "Bilal"}

\* The empty string: a number that is missing
EmptyNumber == [prefix |-> "", digits |-> <<>>]

\* The numbers a caller passes
RepoNumbers == {_format(p, 1) : p \in Prefixes}

\* The item lists a caller passes: quantities and rates with two decimals
\* whose products and sums are exact in binary floating point, and one item
\* whose quantity is not numeric
HalfItem == [qty |-> 5000, rate |-> 2500, nonnum |-> {}]
UnitItem == [qty |-> 20000, rate |-> 1500000, nonnum |-> {}]
BadItem == [qty |-> 0, rate |-> 2500, nonnum |-> {"qty"}]
RepoItemLists == {<<>>, <<HalfItem, HalfItem>>, <<UnitItem, HalfItem>>, <<BadItem>>}

\* The id SQLite gives to a new row: one more than the largest in the table
NewId(rows) ==
    IF rows = {} THEN 1
    ELSE 1 + (CHOOSE m \in {r.id : r \in rows} : \A r \in rows : r.id <= m)

\* total_val = round_money(sum of float(qty) * float(rate))
InvoiceTotal(items_dto) ==
    round_money(SumSeq([i \in 1..Len(items_dto) |->
                           DecMul(items_dto[i].qty, items_dto[i].rate)]))

\* The Item rows added for an invoice, told apart by the invoice and their
\* position in the list; _compute_item_amount sets qty * rate
ItemRowsFor(items_dto, invoice_id) ==
    {[pos |-> i, invoice_id |-> invoice_id,
      qty |-> items_dto[i].qty, rate |-> items_dto[i].rate,
      amount |-> DecMul(items_dto[i].qty, items_dto[i].rate)] : i \in 1..Len(items_dto)}

create_invoice_unchecked(dto, r) ==
    LET inv == [id |-> NewId(r.invoice), number |-> dto.number,
                customer_id |-> dto.customer_id, total |-> InvoiceTotal(dto.items)]
    IN  [repo |-> [r EXCEPT !.invoice = @ \cup {inv},
                            !.item = @ \cup ItemRowsFor(dto.items, inv.id)],
         raised |-> "none", ret |-> inv.id]

\* create_invoice(invoice_dto)
create_invoice(dto, r) ==
    IF ~(dto.number # EmptyNumber /\ dto.date_ok /\ dto.customer_id_is_int)
    THEN [repo |-> r, raised |-> "ValueError", ret |-> 0]
    ELSE IF \E inv \in r.invoice : inv.number = dto.number
    THEN [repo |-> r, raised |-> "ValueError", ret |-> 0]
    ELSE IF \E i \in 1..Len(dto.items) : FloatRaises(dto.items[i])
    THEN [repo |-> r, raised |-> "ValueError", ret |-> 0]
    ELSE LET inv == [id |-> NewId(r.invoice), number |-> dto.number,
                     customer_id |-> dto.customer_id, total |-> InvoiceTotal(dto.items)]
         IN  [repo |-> [r EXCEPT !.invoice = @ \cup {inv},
                                 !.item = @ \cup ItemRowsFor(dto.items, inv.id)],
              raised |-> "none", ret |-> inv.id]

\* get_or_create_customer(name)
get_or_create_customer(name, r) ==
    IF \E c \in r.customer : c.name = name
    THEN [repo |-> r, ret |-> (CHOOSE c \in r.customer : c.name = name).id]
    ELSE [repo |-> [r EXCEPT !.customer = @ \cup {[id |-> NewId(r.customer), name |-> name]}],
          ret |-> NewId(r.customer)]

delete_customer_only(customer_id, force, r) ==
    IF ~\E c \in r.customer : c.id = customer_id
    THEN [repo |-> r, raised |-> "none", ret |-> 0]
    ELSE [repo |-> [r EXCEPT !.customer = {c \in @ : c.id # customer_id}],
          raised |-> "none", ret |-> 1]

\* delete_customer(customer_id, force=force)
delete_customer(customer_id, force, r) ==
    LET inv_ids == {inv.id : inv \in {x \in r.invoice : x.customer_id = customer_id}}
    IN  IF ~\E c \in r.customer : c.id = customer_id
        THEN [repo |-> r, raised |-> "none", ret |-> 0]
        ELSE IF inv_ids # {} /\ ~force
        THEN [repo |-> r, raised |-> "ValueError", ret |-> 0]
        ELSE [repo |-> [customer |-> {c \in r.customer : c.id # customer_id},
                        invoice |-> {x \in r.invoice : x.id \notin inv_ids},
                        item |-> {x \in r.item : x.invoice_id \notin inv_ids}],
              raised |-> "none", ret |-> 1]

\* delete_invoice(invoice_id)
delete_invoice(invoice_id, r) ==
    IF ~\E x \in r.invoice : x.id = invoice_id
    THEN [repo |-> r, raised |-> "none", ret |-> 0]
    ELSE [repo |-> [r EXCEPT !.invoice = {x \in @ : x.id # invoice_id},
                             !.item = {x \in @ : x.invoice_id # invoice_id}],
          raised |-> "none", ret |-> 1]

\* The invoice_dto values tried: the customer is one returned by
\* get_or_create_customer, or the field holds no integer
ValidDtos ==
    [number : RepoNumbers, date_ok : {TRUE}, customer_id_is_int : {TRUE},
     customer_id : 1..MaxId, items : RepoItemLists]

\* ... and those that lack the number, the date or the customer id
Dtos ==
    ValidDtos \cup
    {[d EXCEPT !.number = EmptyNumber] : d \in {x \in ValidDtos : x.customer_id = 1}} \cup
    {[d EXCEPT !.date_ok = FALSE] : d \in {x \in ValidDtos : x.customer_id = 1}} \cup
    {[d EXCEPT !.customer_id_is_int = FALSE] : d \in {x \in ValidDtos : x.customer_id = 1}}

GetOrCreateCustomer ==
    /\ \E name \in CustomerNames :
          /\ (\E c \in repo.customer : c.name = name) \/ NewId(repo.customer) <= MaxId
          /\ LET res == get_or_create_customer(name, repo)
             IN  /\ repo' = res.repo
                 /\ rop' = [name |-> "get_or_create_customer", raised |-> "none",
                            ret |-> res.ret]
    /\ UNCHANGED <<pdfVars, seqVars, moneyVars, wrapVars, overlayVars, flowVars, raceVars>>

CreateInvoiceOf(dto) ==
    /\ dto \in ValidDtos => \E c \in repo.customer : c.id = dto.customer_id
    /\ NewId(repo.invoice) <= MaxId
    /\ LET res == create_invoice(dto, repo)
       IN  /\ repo' = res.repo
           /\ rop' = [name |-> "create_invoice", number |-> dto.number,
                      complete |-> dto.date_ok /\ dto.customer_id_is_int,
                      raised |-> res.raised, ret |-> res.ret]
    /\ UNCHANGED <<pdfVars, seqVars, moneyVars, wrapVars, overlayVars, flowVars, raceVars>>

CreateInvoice == \E dto \in Dtos : CreateInvoiceOf(dto)

DeleteCustomerOf(customer_id, force) ==
    /\ LET res == delete_customer(customer_id, force, repo)
       IN  /\ repo' = res.repo
           /\ rop' = [name |-> "delete_customer", id |-> customer_id, force |-> force,
                      raised |-> res.raised, ret |-> res.ret]
    /\ UNCHANGED <<pdfVars, seqVars, moneyVars, wrapVars, overlayVars, flowVars, raceVars>>

DeleteCustomer == \E id \in 1..MaxId, force \in BOOLEAN : DeleteCustomerOf(id, force)

DeleteInvoice ==
    /\ \E id \in 1..MaxId :
          LET res == delete_invoice(id, repo)
          IN  /\ repo' = res.repo
              /\ rop' = [name |-> "delete_invoice", raised |-> res.raised, ret |-> res.ret]
    /\ UNCHANGED <<pdfVars, seqVars, moneyVars, wrapVars, overlayVars, flowVars, raceVars>>

NextRepo == GetOrCreateCustomer \/ CreateInvoice \/ DeleteCustomer \/ DeleteInvoice

SpecRepo == Init /\ [][NextRepo]_vars

\* No two invoices have the same number
NumbersUnique ==
    \A a \in repo.invoice, b \in repo.invoice : a.number = b.number => a = b

\* C24: invoice numbers stay unique; a create_invoice call whose number is
\* already stored, or that lacks the number, the date or an integer
\* customer_id, raises ValueError and leaves invoices and items as they were.
C24_CreateKeepsUnique ==
    [][rop'.name = "create_invoice" =>
          /\ NumbersUnique /\ NumbersUnique'
          /\ (\/ \E inv \in repo.invoice : inv.number = rop'.number
              \/ rop'.number = EmptyNumber
              \/ ~rop'.complete)
             => rop'.raised = "ValueError" /\ repo' = repo]_vars

\* A call with a stored number was refused while two invoices are stored
C24_Witness ==
    /\ rop.name = "create_invoice"
    /\ rop.raised = "ValueError"
    /\ Cardinality(repo.invoice) = 2
    /\ repo.item # {}

\* Every invoice belongs to a stored customer and every item to a stored invoice
NoOrphans ==
    /\ \A inv \in repo.invoice : \E c \in repo.customer : c.id = inv.customer_id
    /\ \A it \in repo.item : \E inv \in repo.invoice : inv.id = it.invoice_id

\* C25: delete_customer with force=False on a customer with invoices raises
\* ValueError and changes nothing; otherwise it removes the customer, all of
\* their invoices and those invoices' items, and nothing else; for an
\* unknown id it returns 0 and changes nothing.  No invoice or item of a
\* deleted customer is left.
C25_DeleteCustomerCascades ==
    [][rop'.name = "delete_customer" =>
          LET id == rop'.id
              force == rop'.force
              known == \E c \in repo.customer : c.id = id
              own == {x \in repo.invoice : x.customer_id = id}
          IN  /\ ~known => rop'.ret = 0 /\ repo' = repo
              /\ known /\ own # {} /\ ~force =>
                    rop'.raised = "ValueError" /\ repo' = repo
              /\ known /\ (own = {} \/ force) =>
                    /\ rop'.ret = 1
                    /\ repo'.customer = {c \in repo.customer : c.id # id}
                    /\ repo'.invoice = repo.invoice \ own
                    /\ repo'.item =
                          {x \in repo.item : \A inv \in own : x.invoice_id # inv.id}
              /\ NoOrphans => NoOrphans']_vars

\* A customer with an invoice that has items was deleted with force=True
\* while another customer's invoice stayed
C25_Witness ==
    /\ rop.name = "delete_customer"
    /\ rop.ret = 1
    /\ Cardinality(repo.customer) = 1
    /\ Cardinality(repo.invoice) = 1
    /\ repo.item # {}

---------------------------------------------------------------------------
(* app/pdf/pdf_overlay.py build_overlay and app/pdf/pdf_merge.py           *)
(* merge_with_template, with the offsets of overlay_offsets.json at their  *)
(* default 0.                                                              *)

OV_TABLE_TOP_Y == PAGE_HEIGHT - 15 * mm - 25 * mm - 6 * mm - 5 * mm - 5 * mm - 20 * mm
OV_ROW_HEIGHT == 6 * mm
OV_BOTTOM == 40 * mm

\* The y of the first row: below the header text and its rule
OV_FIRST_ROW_Y == OV_TABLE_TOP_Y - 4 * pt - OV_ROW_HEIGHT \div 2

\* The rows the loop draws before "if y < 40 * mm: break"
RECURSIVE OverlayRows(_, _)
OverlayRows(n, y0) ==
    IF n = 0 \/ y0 < OV_BOTTOM THEN 0 ELSE 1 + OverlayRows(n - 1, y0 - OV_ROW_HEIGHT)

overlay_total_recomputed(total, its) ==
    SumSeq([i \in 1..Len(its) |-> DecMul(its[i].qty, its[i].rate)])

\* total = data.get("total"); the sum of float(qty) * float(rate) over all
\* items when it is None
overlay_total(total, its) ==
    IF total.supplied THEN total.value
    ELSE SumSeq([i \in 1..Len(its) |-> DecMul(its[i].qty, its[i].rate)])

\* The totals a caller passes: none, zero, the test's 409.99
OverlayTotals ==
    {[supplied |-> FALSE, value |-> 0], [supplied |-> TRUE, value |-> 0],
     [supplied |-> TRUE, value |-> 4099900]}

\* build_overlay(tmp_path, data): one page with the rows that fit, the
\* "Total:" line, c.showPage(), c.save()
BuildOverlay ==
    /\ ov.stage = "idle"
    /\ \E n \in 0..MaxItems, a \in PoolIdx, b \in PoolIdx, total \in OverlayTotals :
          LET its == MakeItems(n, a, b)
          IN  ov' = [stage |-> "overlay", items |-> its, total |-> total,
                     rows |-> OverlayRows(Len(its), OV_FIRST_ROW_Y),
                     pages |-> <<[total_text |-> Fmt2(overlay_total(total, its))]>>]
    /\ UNCHANGED <<pdfVars, seqVars, moneyVars, wrapVars, repoVars, flowVars, raceVars>>

\* merge_with_template(overlay_pdf, output_pdf): the overlay's first page on
\* the template's first page and the overlay's other pages after it, or a
\* copy of the overlay when assets/template.pdf does not exist
MergeWithTemplate ==
    /\ ov.stage = "overlay"
    /\ \E template_exists \in BOOLEAN :
          ov' = [stage |-> "merged", items |-> ov.items, total |-> ov.total,
                 rows |-> ov.rows, template |-> template_exists,
                 pages |-> IF template_exists
                           THEN <<ov.pages[1]>> \o SubSeq(ov.pages, 2, Len(ov.pages))
                           ELSE ov.pages]
    /\ UNCHANGED <<pdfVars, seqVars, moneyVars, wrapVars, repoVars, flowVars, raceVars>>

NextOverlay == BuildOverlay \/ MergeWithTemplate

SpecOverlay == Init /\ [][NextOverlay]_vars

\* C26: the merged document has exactly one page, and its "Total:" line
\* shows the supplied total with two decimals, or the sum of qty * rate over
\* all items when no total was supplied.
C26_OnePageWithTotal ==
    ov.stage = "merged" =>
        /\ Len(ov.pages) = 1
        /\ ov.total.supplied => ov.pages[1].total_text = Quantize(ov.total.value)
        /\ ~ov.total.supplied =>
              ov.pages[1].total_text =
                  Quantize(SumSeq([i \in 1..Len(ov.items) |->
                                      DecMul(ov.items[i].qty, ov.items[i].rate)]))

\* A list too long for the page was merged onto the template with the
\* supplied total 409.99
C26_Witness ==
    /\ ov.stage = "merged"
    /\ ov.template
    /\ ov.total.supplied
    /\ ov.pages[1].total_text = 40999
    /\ ov.rows < Len(ov.items)

---------------------------------------------------------------------------
(* app/main.py: the form's invoice number and the two save handlers.  The  *)
(* handlers run one at a time on the UI thread.                            *)

\* settings.invoice_prefix
FormPrefix == "KMC-"

\* The numbers the field can hold after the user has edited it
FormNumbers == {_format(p, n) : p \in Prefixes, n \in 1..MaxSeq}

\* n = int("".join(ch for ch in inv_no.removeprefix(prefix) if ch.isdigit()))
ParseSuffix(number) == DigitsValue(number.digits)

\* _save_draft_to_db(win): get_or_create_customer in one session, then
\* create_invoice in another
_save_draft_to_db(number, r) ==
    LET c == get_or_create_customer("Asha", r)
        dto == [number |-> number, date_ok |-> TRUE, customer_id_is_int |-> TRUE,
                customer_id |-> c.ret, items |-> <<UnitItem, HalfItem>>]
    IN  create_invoice(dto, c.repo)

\* The tables after _save_draft_to_db raised: the customer stays
AfterFailedSave(r) == get_or_create_customer("Asha", r).repo

\* main(): the form opens and shows peek_next_invoice_number(prefix)
OpenForm ==
    /\ ~ui.opened
    /\ LET pk == peek_next_invoice_number(FormPrefix, db)
       IN  /\ db' = pk.db
           /\ ui' = [ui EXCEPT !.opened = TRUE, !.shown = pk.ret]
    /\ UNCHANGED <<op, issued, repo, rop, pdfVars, moneyVars, wrapVars, overlayVars, raceVars>>

\* The user types another number into the field
EditNumber ==
    /\ ui.opened
    /\ \E num \in FormNumbers :
          ui' = [ui EXCEPT !.shown = num, !.last = [name |-> "edit"]]
    /\ UNCHANGED <<seqVars, repoVars, pdfVars, moneyVars, wrapVars, overlayVars, raceVars>>

\* on_save_draft(): save, then bump the sequence and show the next number;
\* an exception of the save leaves the handler
OnSaveDraft ==
    /\ ui.opened
    /\ NewId(repo.invoice) <= MaxId
    /\ LET saved == _save_draft_to_db(ui.shown, repo)
           n == ParseSuffix(ui.shown)
           bumped == bump_sequence_to_at_least(FormPrefix, n,
                         [db EXCEPT !.invoice = @ \cup {ui.shown}]).db
           pk == peek_next_invoice_number(FormPrefix, bumped)
       IN  IF saved.raised # "none"
           THEN /\ repo' = AfterFailedSave(repo)
                /\ db' = db
                /\ ui' = [ui EXCEPT !.last = [name |-> "save_draft", number |-> ui.shown,
                                              saved |-> FALSE, pdf |-> FALSE,
                                              seq_before |-> db.last]]
           ELSE /\ repo' = saved.repo
                /\ db' = pk.db
                /\ ui' = [ui EXCEPT !.shown = pk.ret,
                                    !.last = [name |-> "save_draft", number |-> ui.shown,
                                              saved |-> TRUE, pdf |-> FALSE,
                                              seq_before |-> db.last]]
    /\ UNCHANGED <<op, issued, rop, pdfVars, moneyVars, wrapVars, overlayVars, raceVars>>

\* on_save_pdf_and_optionally_print(): save (on an exception: message box,
\* return), bump the sequence, build the PDF (on an exception: message box,
\* return), then show the next number
OnSavePdf ==
    /\ ui.opened
    /\ NewId(repo.invoice) <= MaxId
    /\ LET saved == _save_draft_to_db(ui.shown, repo)
           n == ParseSuffix(ui.shown)
           bumped == bump_sequence_to_at_least(FormPrefix, n,
                         [db EXCEPT !.invoice = @ \cup {ui.shown}]).db
           pk == peek_next_invoice_number(FormPrefix, bumped)
       IN  IF saved.raised # "none"
           THEN /\ repo' = AfterFailedSave(repo)
                /\ db' = db
                /\ ui' = [ui EXCEPT !.last = [name |-> "save_pdf", number |-> ui.shown,
                                              saved |-> FALSE, pdf |-> FALSE,
                                              seq_before |-> db.last]]
           ELSE \E pdf_built \in BOOLEAN :
                /\ repo' = saved.repo
                /\ db' = IF pdf_built THEN pk.db ELSE bumped
                /\ ui' = [ui EXCEPT !.shown = IF pdf_built THEN pk.ret ELSE ui.shown,
                                    !.pdfs = IF pdf_built THEN @ \cup {ui.shown} ELSE @,
                                    !.last = [name |-> "save_pdf", number |-> ui.shown,
                                              saved |-> TRUE, pdf |-> pdf_built,
                                              seq_before |-> db.last]]
    /\ UNCHANGED <<op, issued, rop, pdfVars, moneyVars, wrapVars, overlayVars, raceVars>>

NextFlow == OpenForm \/ EditNumber \/ OnSaveDraft \/ OnSavePdf

SpecFlow == Init /\ [][NextFlow]_vars

\* C28: after a save handler has stored an invoice numbered prefix + N, the
\* sequence of the prefix is at least N, the number shown in the form has a
\* suffix greater than N and is not the number of a stored invoice; when the
\* save failed, no PDF was written and the sequence is as before.
C28_SaveFlowOrdering ==
    ui.last.name \in {"save_draft", "save_pdf"} =>
        /\ ui.last.saved /\ ui.last.number.prefix = FormPrefix =>
              /\ LastOr0(db, FormPrefix) >= ParseSuffix(ui.last.number)
              /\ SuffixValue(ui.shown) > ParseSuffix(ui.last.number)
              /\ ui.shown \notin db.invoice
        /\ ~ui.last.saved =>
              /\ ~ui.last.pdf
              /\ db.last = ui.last.seq_before

---------------------------------------------------------------------------
(* Peek and commit *)

\* C27: in every database state, the number peek_next_invoice_number
\* returns for a prefix is the number next_invoice_number returns when it
\* is called next, also when the prefix has no sequence row but invoices
\* with the prefix are stored.
C27_PeekAgreesWithNext ==
    \A p \in Prefixes :
        peek_next_invoice_number(p, db).ret = next_invoice_number(p, db).ret

---------------------------------------------------------------------------
(* Stored total and printed total *)

\* LineItemRow.get_data(): the row handed to the PDF, with the amount
\* rounded to the cent
get_data(qty, rate) ==
    [qty |-> qty, rate |-> rate, hasAmount |-> TRUE,
     amount |-> round_money_dec(DecMul(qty, rate)), nonnum |-> {}]

\* The rows of a stored invoice as the form collected them, in list order
FormItemsOf(invoice_id) ==
    LET rows == {it \in repo.item : it.invoice_id = invoice_id}
    IN  [i \in 1..Cardinality(rows) |->
            LET it == CHOOSE x \in rows : x.pos = i
            IN  get_data(it.qty, it.rate)]

\* C29: for every stored invoice the total create_invoice stored equals the
\* total the PDF shows for the same items, the sum of the per-item amounts
\* each rounded to the cent.
C29_StoredTotalIsPdfTotal ==
    \A inv \in repo.invoice : inv.total = SliceTotal(FormItemsOf(inv.id))

---------------------------------------------------------------------------
(* app/core/numbering.py run by two sessions on one SQLite file, statement *)
(* by statement.  The table invoice_sequences exists.  A session's first   *)
(* writing statement takes the database's write lock, which it holds until *)
(* its commit; a SELECT of a session without the lock reads the committed  *)
(* row.  race.last is the committed row of the prefix, race.pending the    *)
(* row as the lock holder has written it.                                  *)

Sessions == {1, 2}

\* The calls made in one run
MaxCalls == 4

Idle(s) == race.s[s].pc = "idle"

LockFreeFor(s) == race.lock \in {0, s}

SetPc(s, pc_new) == [race.s EXCEPT ![s].pc = pc_new]

\* A call of next_invoice_number(prefix, session) begins
StartNext(s) ==
    /\ Idle(s)
    /\ race.calls < MaxCalls
    /\ race' = [race EXCEPT !.calls = @ + 1, !.s = SetPc(s, "next_update")]
    /\ UNCHANGED <<pdfVars, seqVars, moneyVars, wrapVars, repoVars, overlayVars, flowVars>>

\* UPDATE invoice_sequences SET last = last + 1 WHERE prefix = :p
NextUpdate(s) ==
    /\ race.s[s].pc = "next_update"
    /\ LockFreeFor(s)
    /\ race' = IF race.last = NoRow
               THEN [race EXCEPT !.lock = s, !.pending = NoRow,
                                 !.s = SetPc(s, "next_insert")]
               ELSE [race EXCEPT !.lock = s, !.pending = race.last + 1,
                                 !.s = SetPc(s, "next_select")]
    /\ UNCHANGED <<pdfVars, seqVars, moneyVars, wrapVars, repoVars, overlayVars, flowVars>>

\* rowcount == 0: INSERT ... VALUES (:p, 1); current = 1
NextInsert(s) ==
    /\ race.s[s].pc = "next_insert"
    /\ race' = [race EXCEPT !.pending = 1,
                            !.s = [@ EXCEPT ![s].pc = "next_commit", ![s].current = 1]]
    /\ UNCHANGED <<pdfVars, seqVars, moneyVars, wrapVars, repoVars, overlayVars, flowVars>>

\* SELECT last ...; current = int(row[0])
NextSelect(s) ==
    /\ race.s[s].pc = "next_select"
    /\ race' = [race EXCEPT !.s = [@ EXCEPT ![s].pc = "next_commit",
                                            ![s].current = race.pending]]
    /\ UNCHANGED <<pdfVars, seqVars, moneyVars, wrapVars, repoVars, overlayVars, flowVars>>

\* db_session.commit(); return _format(prefix, current)
NextCommit(s) ==
    /\ race.s[s].pc = "next_commit"
    /\ race' = [race EXCEPT !.last = race.pending, !.lock = 0,
                            !.returned = Append(@, race.s[s].current),
                            !.s = SetPc(s, "idle")]
    /\ UNCHANGED <<pdfVars, seqVars, moneyVars, wrapVars, repoVars, overlayVars, flowVars>>

\* A call of bump_sequence_to_at_least(prefix, n, session) begins
StartBump(s) ==
    /\ Idle(s)
    /\ race.calls < MaxCalls
    /\ \E n \in 1..MaxSeq :
          race' = [race EXCEPT !.calls = @ + 1,
                               !.s = [@ EXCEPT ![s].pc = "bump_select", ![s].n = n]]
    /\ UNCHANGED <<pdfVars, seqVars, moneyVars, wrapVars, repoVars, overlayVars, flowVars>>

\* row = SELECT last ...; then the branch on row and on last < n
BumpSelect(s) ==
    /\ race.s[s].pc = "bump_select"
    /\ race.lock # s
    /\ race' = [race EXCEPT !.s = SetPc(s,
                   IF race.last = NoRow THEN "bump_insert"
                   ELSE IF race.last < race.s[s].n THEN "bump_update"
                   ELSE "idle")]
    /\ UNCHANGED <<pdfVars, seqVars, moneyVars, wrapVars, repoVars, overlayVars, flowVars>>

\* INSERT ... VALUES (:p, :val); the primary key rejects a second row of
\* the prefix and the exception ends the call
BumpInsert(s) ==
    /\ race.s[s].pc = "bump_insert"
    /\ LockFreeFor(s)
    /\ race' = IF race.last = NoRow
               THEN [race EXCEPT !.lock = s, !.pending = race.s[s].n,
                                 !.s = SetPc(s, "bump_commit")]
               ELSE [race EXCEPT !.s = SetPc(s, "idle")]
    /\ UNCHANGED <<pdfVars, seqVars, moneyVars, wrapVars, repoVars, overlayVars, flowVars>>

\* UPDATE invoice_sequences SET last = :val WHERE prefix = :p
BumpUpdate(s) ==
    /\ race.s[s].pc = "bump_update"
    /\ LockFreeFor(s)
    /\ race' = [race EXCEPT !.lock = s, !.pending = race.s[s].n,
                            !.s = SetPc(s, "bump_commit")]
    /\ UNCHANGED <<pdfVars, seqVars, moneyVars, wrapVars, repoVars, overlayVars, flowVars>>

\* db_session.commit()
BumpCommit(s) ==
    /\ race.s[s].pc = "bump_commit"
    /\ race' = [race EXCEPT !.last = race.pending, !.lock = 0,
                            !.s = SetPc(s, "idle")]
    /\ UNCHANGED <<pdfVars, seqVars, moneyVars, wrapVars, repoVars, overlayVars, flowVars>>

\* A writing statement that waits for the lock longer than the busy timeout
\* raises "database is locked" and ends the call
StatementLocked(s) ==
    /\ race.s[s].pc \in {"next_update", "bump_insert", "bump_update"}
    /\ ~LockFreeFor(s)
    /\ race' = [race EXCEPT !.s = SetPc(s, "idle")]
    /\ UNCHANGED <<pdfVars, seqVars, moneyVars, wrapVars, repoVars, overlayVars, flowVars>>

NextRace ==
    \E s \in Sessions :
        \/ StartNext(s) \/ NextUpdate(s) \/ NextInsert(s) \/ NextSelect(s)
        \/ NextCommit(s)
        \/ StartBump(s) \/ BumpSelect(s) \/ BumpInsert(s) \/ BumpUpdate(s)
        \/ BumpCommit(s)
        \/ StatementLocked(s)

SpecRace == Init /\ [][NextRace]_vars

\* C30: with the statements of two sessions interleaved, no two calls of
\* next_invoice_number return the same number and the stored last value
\* never decreases.
C30_NoDuplicateNoDecrease ==
    [][/\ race'.last >= race.last
       /\ \A i, j \in 1..Len(race'.returned) :
             i # j => race'.returned[i] # race'.returned[j]]_vars

====
